---- MODULE Spec2Model ----
(***************************************************************************)
(* The inventory export of src/src/index.ts: the prompt, the identifier    *)
(* loop (resolver, inventory), the asset loop (description lookup, skins   *)
(* filter, price cache, rate-limited price fetch with one retry, price     *)
(* range filter, record construction) and the export.                      *)
(*                                                                         *)
(* Strings the program inspects character by character (type labels,       *)
(* price strings) are sequences of one-character strings; strings it only  *)
(* compares or concatenates (names, identifiers) are TLA+ strings.         *)
(***************************************************************************)
EXTENDS Integers, Sequences, FiniteSets, TLC

\* ------------------------------------------------------------------ bounds
\* Most assets all the inventories of one run hold together.
MaxAssets == 2

\* ------------------------------------------------------- character strings
Digits == {"0", "1", "2", "3", "4", "5", "6", "7", "8", "9"}

DigitVal(c) ==
  CASE c = "0" -> 0 [] c = "1" -> 1 [] c = "2" -> 2 [] c = "3" -> 3
    [] c = "4" -> 4 [] c = "5" -> 5 [] c = "6" -> 6 [] c = "7" -> 7
    [] c = "8" -> 8 [] c = "9" -> 9

UpperChars ==
  <<"A", "B", "C", "D", "E", "F", "G", "H", "I", "J", "K", "L", "M",
    "N", "O", "P", "Q", "R", "S", "T", "U", "V", "W", "X", "Y", "Z">>

LowerChars ==
  <<"a", "b", "c", "d", "e", "f", "g", "h", "i", "j", "k", "l", "m",
    "n", "o", "p", "q", "r", "s", "t", "u", "v", "w", "x", "y", "z">>

\* the lower-case form of each upper-case letter
lowerOf ==
  [c \in {UpperChars[k] : k \in 1..Len(UpperChars)} |->
     LowerChars[CHOOSE k \in 1..Len(UpperChars) : UpperChars[k] = c]]

\* String.prototype.toLowerCase
toLowerCase(s) ==
  [i \in 1..Len(s) |-> IF s[i] \in DOMAIN lowerOf THEN lowerOf[s[i]] ELSE s[i]]

\* String.prototype.includes with a substring argument
includes(s, sub) ==
  \E i \in 0..(Len(s) - Len(sub)) : SubSeq(s, i + 1, i + Len(sub)) = sub

\* String.prototype.indexOf / lastIndexOf of one character, 0-based, -1 if absent
indexOf(s, c) ==
  IF \E i \in 1..Len(s) : s[i] = c
  THEN (CHOOSE i \in 1..Len(s) : s[i] = c /\ \A j \in 1..(i - 1) : s[j] # c) - 1
  ELSE -1

lastIndexOf(s, c) ==
  IF \E i \in 1..Len(s) : s[i] = c
  THEN (CHOOSE i \in 1..Len(s) : s[i] = c /\ \A j \in (i + 1)..Len(s) : s[j] # c) - 1
  ELSE -1

\* s.replace(/c/g, '')
removeAll(s, c) == SelectSeq(s, LAMBDA x : x # c)

\* s.replace(c, d) with a string pattern: the first occurrence only
replaceFirst(s, c, d) ==
  IF indexOf(s, c) = -1 THEN s ELSE [s EXCEPT ![indexOf(s, c) + 1] = d]

RECURSIVE Pow10(_)
Pow10(n) == IF n = 0 THEN 1 ELSE 10 * Pow10(n - 1)

\* the natural number a run of decimal digits denotes (0 for the empty run)
DigitsValue(ds) ==
  LET value[i \in 0..Len(ds)] ==
        IF i = 0 THEN 0 ELSE 10 * value[i - 1] + DigitVal(ds[i])
  IN  value[Len(ds)]

\* length of the longest prefix of s, from position from (1-based), made of digits
DigitRun(s, from) ==
  LET stops == {i \in from..Len(s) : s[i] \notin Digits}
  IN  IF stops = {} THEN Len(s) - from + 1
      ELSE (CHOOSE i \in stops : \A j \in stops : i <= j) - from

\* A JavaScript number that is NaN or a non-negative decimal: num / 10^scale.
NaN == [nan |-> TRUE, num |-> 0, scale |-> 0]

\* parseFloat on a string of digits, commas and periods: the longest prefix
\* digits [. digits] with at least one digit; NaN when there is none.
parseFloat(s) ==
  LET ni   == DigitRun(s, 1)
      dot  == ni < Len(s) /\ s[ni + 1] = "."
      nf   == IF dot THEN DigitRun(s, ni + 2) ELSE 0
      int  == SubSeq(s, 1, ni)
      frac == SubSeq(s, ni + 2, ni + 1 + nf)
  IN  IF ni = 0 /\ nf = 0 THEN NaN
      ELSE [nan |-> FALSE, num |-> DigitsValue(int \o frac), scale |-> nf]

\* ------------------------------------------------------- parsePriceValue
\* JavaScript null as the result of parsePriceValue
Null == [isNull |-> TRUE, num |-> 0, scale |-> 0]

cleanedOf(priceString) ==
  SelectSeq(priceString, LAMBDA c : c \in Digits \/ c = "," \/ c = ".")

\* normalizedOf deciding by the first occurrences instead of the last
normalizedOfFirstOccurrence(cleaned) ==
  IF includes(cleaned, <<",">>) /\ includes(cleaned, <<".">>)
  THEN IF indexOf(cleaned, ".") > indexOf(cleaned, ",")
       THEN removeAll(cleaned, ",")
       ELSE replaceFirst(removeAll(cleaned, "."), ",", ".")
  ELSE IF includes(cleaned, <<",">>)
       THEN IF Len(cleaned) - indexOf(cleaned, ",") <= 3
            THEN replaceFirst(cleaned, ",", ".")
            ELSE removeAll(cleaned, ",")
       ELSE cleaned

\* normalizedOf looking at the last comma where only commas appear
normalizedOfLastComma(cleaned) ==
  IF includes(cleaned, <<",">>) /\ includes(cleaned, <<".">>)
  THEN IF lastIndexOf(cleaned, ".") > lastIndexOf(cleaned, ",")
       THEN removeAll(cleaned, ",")
       ELSE replaceFirst(removeAll(cleaned, "."), ",", ".")
  ELSE IF includes(cleaned, <<",">>)
       THEN IF Len(cleaned) - lastIndexOf(cleaned, ",") <= 3
            THEN replaceFirst(cleaned, ",", ".")
            ELSE removeAll(cleaned, ",")
       ELSE cleaned

normalizedOf(cleaned) ==
  IF includes(cleaned, <<",">>) /\ includes(cleaned, <<".">>)
  THEN IF lastIndexOf(cleaned, ".") > lastIndexOf(cleaned, ",")
       THEN removeAll(cleaned, ",")
       ELSE replaceFirst(removeAll(cleaned, "."), ",", ".")
  ELSE IF includes(cleaned, <<",">>)
       THEN IF Len(cleaned) - indexOf(cleaned, ",") <= 3
            THEN replaceFirst(cleaned, ",", ".")
            ELSE removeAll(cleaned, ",")
       ELSE cleaned

\* Each const of the function body is bound once, as the one element of a set.
parsePriceValue(priceString) ==
  IF priceString = <<>> THEN Null
  ELSE CHOOSE result \in
         {IF value.nan THEN Null
          ELSE [isNull |-> FALSE, num |-> value.num, scale |-> value.scale] :
            value \in {parseFloat(normalized) :
              normalized \in {normalizedOf(cleaned) :
                cleaned \in {cleanedOf(priceString)}}}} : TRUE

\* ---------------------------------------------------------- isInPriceRange
USD == <<"U", "S", "D">>
EUR == <<"E", "U", "R">>

\* The value of `let maxPrice: number = Infinity`; prices are never negative.
Infinity == -1

\* value >= min and value <= max of JavaScript numbers, value = num / 10^scale
GreaterEq(v, min) == v.num >= min * Pow10(v.scale)
LessEq(v, max) == max = Infinity \/ v.num <= max * Pow10(v.scale)

\* faulty variant: the bounds are exclusive
isInPriceRangeExclusive(priceString, currencyCode, min, max) ==
  \E value \in {parsePriceValue(priceString)} :
    IF value.isNull THEN FALSE
    ELSE IF currencyCode = USD
         THEN /\ value.num > min * Pow10(value.scale)
              /\ max = Infinity \/ value.num < max * Pow10(value.scale)
    ELSE TRUE

\* faulty variant: the bounds are compared whatever the currency is
isInPriceRangeAnyCurrency(priceString, currencyCode, min, max) ==
  \E value \in {parsePriceValue(priceString)} :
    IF value.isNull THEN FALSE ELSE GreaterEq(value, min) /\ LessEq(value, max)

isInPriceRange(priceString, currencyCode, min, max) ==
  \E value \in {parsePriceValue(priceString)} :
    IF value.isNull THEN FALSE
    ELSE IF currencyCode = USD THEN GreaterEq(value, min) /\ LessEq(value, max)
    ELSE TRUE

\* ------------------------------------------------------------ isWeaponSkin
excludeTypes ==
  << <<"c", "o", "n", "t", "a", "i", "n", "e", "r">>,
     <<"c", "a", "s", "e">>,
     <<"k", "e", "y">>,
     <<"s", "t", "i", "c", "k", "e", "r">>,
     <<"g", "r", "a", "f", "f", "i", "t", "i">>,
     <<"p", "a", "t", "c", "h">>,
     <<"p", "i", "n">>,
     <<"m", "u", "s", "i", "c", " ", "k", "i", "t">>,
     <<"p", "a", "s", "s">>,
     <<"t", "o", "o", "l">>,
     <<"g", "i", "f", "t">>,
     <<"t", "a", "g">>,
     <<"c", "o", "i", "n">> >>

\* JavaScript values of the boolean expressions: true, false or undefined
truthy(v) == v = "true"

\* a || b
jsOr(a, b) == IF truthy(a) THEN a ELSE b

\* desc.tags?.some(t => t.category === category): undefined when desc.tags is missing
hasTag(desc, category) ==
  IF "tags" \notin DOMAIN desc THEN "undefined"
  ELSE IF \E i \in 1..Len(desc.tags) : desc.tags[i].category = category
       THEN "true" ELSE "false"

\* excludeTypes.some(excluded => type.includes(excluded)), type being
\* desc.type?.toLowerCase() || ""
isExcludedType(desc) ==
  \E type \in {IF "type" \in DOMAIN desc THEN toLowerCase(desc.type) ELSE <<>>} :
    \E k \in 1..Len(excludeTypes) : includes(type, excludeTypes[k])

isWeaponSkin(desc) ==
  IF isExcludedType(desc)
  THEN "false"
  ELSE jsOr(hasTag(desc, "Weapon"), hasTag(desc, "Exterior"))

\* ------------------------------------------------------------- currencies
\* Steam currency ids by currency code
currencyMap ==
  << [code |-> USD, id |-> 1],
     [code |-> EUR, id |-> 3],
     [code |-> <<"G", "B", "P">>, id |-> 2],
     [code |-> <<"R", "U", "B">>, id |-> 5],
     [code |-> <<"B", "R", "L">>, id |-> 7],
     [code |-> <<"C", "A", "D">>, id |-> 20],
     [code |-> <<"A", "U", "D">>, id |-> 21],
     [code |-> <<"C", "N", "Y">>, id |-> 23],
     [code |-> <<"I", "N", "R">>, id |-> 24],
     [code |-> <<"J", "P", "Y">>, id |-> 8],
     [code |-> <<"K", "R", "W">>, id |-> 9],
     [code |-> <<"T", "R", "Y">>, id |-> 17],
     [code |-> <<"U", "A", "H">>, id |-> 18],
     [code |-> <<"M", "X", "N">>, id |-> 19],
     [code |-> <<"A", "R", "S">>, id |-> 34],
     [code |-> <<"C", "L", "P">>, id |-> 35] >>

\* the upper-case form of each lower-case letter
upperOf ==
  [c \in {LowerChars[k] : k \in 1..Len(LowerChars)} |->
     UpperChars[CHOOSE k \in 1..Len(LowerChars) : LowerChars[k] = c]]

\* String.prototype.toUpperCase
toUpperCase(s) ==
  [i \in 1..Len(s) |-> IF s[i] \in DOMAIN upperOf THEN upperOf[s[i]] ELSE s[i]]

\* currencyMap[selectedCurrency] || 1
currencyIdOf(code) ==
  IF \E i \in 1..Len(currencyMap) : currencyMap[i].code = code
  THEN currencyMap[CHOOSE i \in 1..Len(currencyMap) : currencyMap[i].code = code].id
  ELSE 1

\* ------------------------------------------------------------------ JSON
\* A JavaScript string or undefined, as the cache and priceRes hold it.  A
\* JSON text is the sequence of its <<key, value>> members, "{}" the empty one.
Undefined == [def |-> FALSE, text |-> <<>>]
Str(text) == [def |-> TRUE, text |-> text]
EmptyJson == <<>>

\* faulty variant: the quote is stored without its currency
stringifyQuoteNoCurrency(priceData, currency) ==
  << <<"lowest_price", priceData.lowest_price>>,
     <<"median_price", priceData.median_price>>,
     <<"volume", priceData.volume>> >>

\* JSON.stringify of the quote object literal of the asset loop
stringifyQuote(priceData, currency) ==
  << <<"lowest_price", priceData.lowest_price>>,
     <<"median_price", priceData.median_price>>,
     <<"volume", priceData.volume>>,
     <<"currency", currency>> >>

\* JSON.parse of an object text: the object, a function of its keys
JSONparse(text) ==
  [k \in {text[i][1] : i \in 1..Len(text)} |->
     text[CHOOSE i \in 1..Len(text) :
            text[i][1] = k /\ \A j \in (i + 1)..Len(text) : text[j][1] # k][2]]

\* obj?.field || "" for a field holding a string
orEmpty(obj, field) == IF field \in DOMAIN obj THEN obj[field] ELSE <<>>

\* ---------------------------------------------------- getSteamMarketPrice
\* What the price endpoint can answer: a JSON body, a body that is no JSON,
\* an HTTP error status, or no answer within the 15 s timeout.
ApiData ==
  { [success |-> TRUE,
     lowest_price |-> <<"$", "5", ".", "0", "0">>,
     median_price |-> <<"$", "5", ".", "1", "0">>,
     volume |-> <<"1", "2">>],
    [success |-> TRUE,
     lowest_price |-> <<"$", "1", "0", ".", "5", "0">>,
     median_price |-> <<"$", "1", "1", ".", "0", "0">>,
     volume |-> <<"5", "0", "0">>],
    [success |-> TRUE,
     lowest_price |-> <<"N", "/", "A">>,
     volume |-> <<"3">>],
    [success |-> FALSE] }

Responses ==
  {[kind |-> "body", status |-> 200, data |-> d] : d \in ApiData}
    \cup {[kind |-> "garbled", status |-> 200, data |-> [success |-> FALSE]],
          [kind |-> "status", status |-> 429, data |-> [success |-> FALSE]],
          [kind |-> "status", status |-> 500, data |-> [success |-> FALSE]],
          [kind |-> "timeout", status |-> 0, data |-> [success |-> FALSE]]}

NoQuote == [success |-> FALSE, lowest_price |-> <<>>, median_price |-> <<>>, volume |-> <<>>]

\* The result of the await: the value returned, or the error rethrown, whose
\* response.status is 0 when the error carries no response.
getSteamMarketPrice(res) ==
  IF res.kind = "body"
  THEN [threw |-> FALSE, status |-> 0,
        value |-> IF res.data.success
                  THEN [success |-> TRUE,
                        lowest_price |-> orEmpty(res.data, "lowest_price"),
                        median_price |-> orEmpty(res.data, "median_price"),
                        volume |-> orEmpty(res.data, "volume")]
                  ELSE NoQuote]
  ELSE [threw |-> TRUE,
        status |-> IF res.kind = "status" THEN res.status ELSE 0,
        value |-> NoQuote]

\* ------------------------------------------------------------- inventory
AK == "AK-47 | Redline (Field-Tested)"
CaseName == "Fracture Case"
Names == {AK, CaseName}

RifleType == <<"C", "l", "a", "s", "s", "i", "f", "i", "e", "d", " ", "R", "i", "f", "l", "e">>
CaseType == <<"B", "a", "s", "e", " ", "G", "r", "a", "d", "e", " ",
              "C", "o", "n", "t", "a", "i", "n", "e", "r">>

RifleTags ==
  << [category |-> "Type", localized_tag_name |-> "Rifle"],
     [category |-> "Weapon", localized_tag_name |-> "AK-47"],
     [category |-> "ItemSet", localized_tag_name |-> "The Phoenix Collection"],
     [category |-> "Quality", localized_tag_name |-> "Normal"],
     [category |-> "Rarity", localized_tag_name |-> "Classified"],
     [category |-> "Exterior", localized_tag_name |-> "Field-Tested"] >>

CaseTags ==
  << [category |-> "Type", localized_tag_name |-> "Container"],
     [category |-> "Quality", localized_tag_name |-> "Normal"],
     [category |-> "Rarity", localized_tag_name |-> "Base Grade"] >>

\* The descriptions every modelled inventory carries: a marketable rifle, the
\* same rifle under a trade hold (another class, the same market-lookup name,
\* not marketable) and a marketable case.  Class 4 has no description.
Descriptions ==
  << [classid |-> 1, market_hash_name |-> AK, market_name |-> AK,
      marketable |-> 1, type |-> RifleType, tags |-> RifleTags],
     [classid |-> 2, market_hash_name |-> AK, market_name |-> AK,
      marketable |-> 0, type |-> RifleType, tags |-> RifleTags],
     [classid |-> 3, market_hash_name |-> CaseName, market_name |-> CaseName,
      marketable |-> 1, type |-> CaseType, tags |-> CaseTags] >>

ClassIds == 1..4

AssetLists(n) ==
  UNION {[1..k -> ClassIds] : k \in 0..n}

\* The inventories the inventory endpoint can answer with, of at most n assets
Inventories(n) ==
  {[assets |-> [i \in 1..Len(cs) |-> [classid |-> cs[i], assetid |-> i]],
    descriptions |-> Descriptions] : cs \in AssetLists(n)}

NoInventory == [assets |-> <<>>, descriptions |-> <<>>]

\* ---------------------------------------------------------------- prompt
\* String.prototype.trim (the only whitespace typed is the space)
RECURSIVE trim(_)
trim(s) ==
  IF Len(s) > 0 /\ s[1] = " " THEN trim(Tail(s))
  ELSE IF Len(s) > 0 /\ s[Len(s)] = " " THEN trim(SubSeq(s, 1, Len(s) - 1))
  ELSE s

\* String.prototype.split(",")
RECURSIVE split(_)
split(s) ==
  IF indexOf(s, ",") = -1 THEN <<s>>
  ELSE <<SubSeq(s, 1, indexOf(s, ","))>> \o split(SubSeq(s, indexOf(s, ",") + 2, Len(s)))

parseIds(idstr) ==
  IF idstr = <<>> THEN <<>>
  ELSE SelectSeq([i \in 1..Len(split(idstr)) |-> trim(split(idstr)[i])],
                 LAMBDA id : Len(id) > 0)

\* The lines typed at the identifier prompt: "a" and "a, ../b"
IdInputs ==
  { <<"a">>,
    <<"a", ",", " ", ".", ".", "/", "b">> }

CurrencyChoices == {USD, EUR}
FormatChoices == {"csv", "json", "all"}
\* The numbers typed at the two price prompts
PriceInputs == {-5, 0, 5, 10}

\* validate of the ids, minPrice and maxPrice questions
validateIds(input) == Len(parseIds(input)) > 0
\* validate of minPrice accepting every number
validateMinPriceAny(input) == TRUE

validateMinPrice(input) == input >= 0
validateMaxPrice(input, min) == ~(input <= 0) /\ ~(input <= min)

\* The answers inquirer hands to the handler: every question validated, the
\* two price questions asked only when the range filter was confirmed.
Answers ==
  {a \in [ids : IdInputs, currency : CurrencyChoices, exportFormat : FormatChoices,
          skinsOnly : BOOLEAN, priceRangeFilter : BOOLEAN,
          minPrice : PriceInputs, maxPrice : PriceInputs] :
     /\ validateIds(a.ids)
     /\ a.priceRangeFilter =>
          validateMinPrice(a.minPrice) /\ validateMaxPrice(a.maxPrice, a.minPrice)
     /\ ~a.priceRangeFilter => a.minPrice = 0 /\ a.maxPrice = 10}

\* ------------------------------------------------------------------ state
VARIABLES
  ids, selectedCurrency, steamCurrencyId, skinsOnly, priceRangeFilter,
  minPrice, maxPrice, exportFormat,   \* the run configuration
  cache,           \* the NodeCache: market_hash_name -> stored value
  files,           \* the files written: name -> content
  now,             \* milliseconds the run has spent in its delays
  pc,              \* where the top-level code is suspended
  idIdx,           \* position of the for-of loop over ids
  steamId64,       \* of the identifier being processed
  inventoryItems,  \* of the identifier being processed
  assetIdx,        \* position of the for-of loop over assets
  parsedItems,     \* the records of the identifier being processed
  priceRes,        \* priceRes of the asset being processed
  inFlight,        \* price requests sent and not yet answered
  trace,           \* history: what the current asset encounter did, in order
  lastReturn,      \* history: what the last price call that returned, returned
  fetchedIn,       \* history: per name, the encounters that called the fetcher
  priceFields,     \* history: per name, <<Marketable, price fields>> of its records
  assetLog,        \* history: per asset of this inventory, the quote it ended with
  idLog,           \* history: per identifier processed, how it ended
  runLog,          \* history: the fetches needed, delays completed and calls sent
  call             \* a function applied on its own: its name, argument and result

config == <<ids, selectedCurrency, steamCurrencyId, skinsOnly, priceRangeFilter,
            minPrice, maxPrice, exportFormat>>
history == <<trace, lastReturn, fetchedIn, priceFields, assetLog, idLog, runLog>>
vars == <<config, cache, files, now, pc, idIdx, steamId64, inventoryItems,
          assetIdx, parsedItems, priceRes, inFlight, history, call>>

\* no function is applied on its own while the program runs
NoCall == [fn |-> "none"]

\* the program's state when it starts
ProgramStart ==
  /\ ids = <<>> /\ selectedCurrency = USD /\ steamCurrencyId = 1
  /\ skinsOnly = FALSE /\ priceRangeFilter = FALSE
  /\ minPrice = 0 /\ maxPrice = Infinity /\ exportFormat = "csv"
  /\ cache = <<>> /\ files = <<>> /\ now = 0
  /\ pc = "prompt" /\ idIdx = 1 /\ steamId64 = ""
  /\ inventoryItems = NoInventory /\ assetIdx = 1
  /\ parsedItems = <<>> /\ priceRes = Undefined /\ inFlight = 0
  /\ trace = <<>> /\ lastReturn = NoQuote /\ fetchedIn = [n \in Names |-> {}]
  /\ priceFields = [n \in Names |-> {}] /\ assetLog = <<>> /\ idLog = <<>>
  /\ runLog = <<>>

Init == ProgramStart /\ call = NoCall

\* ------------------------------------------------------------ asset loop
FetchDelayMs == 3000
BackoffMs == 5000

\* cache.get(key): the stored string, or a value that == undefined when the
\* key is absent or holds undefined
cacheGet(key) ==
  IF key \in DOMAIN cache /\ cache[key].def THEN cache[key] ELSE Undefined

\* faulty variant: storing a key drops every other key
cacheSetAlone(key, value) == [k \in {key} |-> value]

\* cache.set(key, value)
cacheSet(key, value) ==
  [k \in DOMAIN cache \cup {key} |-> IF k = key THEN value ELSE cache[k]]

\* faulty variant: the first description stands in when none matches
findDescOrFirst(descriptions, classid) ==
  IF \E i \in 1..Len(descriptions) : descriptions[i].classid = classid
  THEN CHOOSE i \in 1..Len(descriptions) :
         /\ descriptions[i].classid = classid
         /\ \A j \in 1..(i - 1) : descriptions[j].classid # classid
  ELSE 1

\* inventoryItems.descriptions.find(d => asset.classid == d.classid): the
\* position of the first match, 0 when there is none
findDesc(descriptions, classid) ==
  IF \E i \in 1..Len(descriptions) : descriptions[i].classid = classid
  THEN CHOOSE i \in 1..Len(descriptions) :
         /\ descriptions[i].classid = classid
         /\ \A j \in 1..(i - 1) : descriptions[j].classid # classid
  ELSE 0

\* desc.tags.find(t => t.category == category)?.localized_tag_name || ""
tagName(desc, category) ==
  IF \E i \in 1..Len(desc.tags) : desc.tags[i].category = category
  THEN desc.tags[CHOOSE i \in 1..Len(desc.tags) :
                   /\ desc.tags[i].category = category
                   /\ \A j \in 1..(i - 1) : desc.tags[j].category # category]
         .localized_tag_name
  ELSE ""

\* the asset and the description of the encounter in progress
curAsset == inventoryItems.assets[assetIdx]
curDescIdx == findDesc(inventoryItems.descriptions, curAsset.classid)
curDesc == inventoryItems.descriptions[curDescIdx]

\* faulty variant: the cache is not looked at
needsFetchIgnoringCache(desc, res) == desc.marketable # 0

\* faulty variant: marketable is not looked at
needsFetchAnyDescription(desc, res) == ~res.def

\* if (desc.marketable && priceRes == undefined)
needsFetch(desc, res) == desc.marketable # 0 /\ ~res.def

\* faulty variant: the quote a call returned is dropped
priceResAfterDropped(priceData, res) == res

\* if (priceData.success) priceRes = JSON.stringify({...})
priceResAfter(priceData, res) ==
  IF priceData.success THEN Str(stringifyQuote(priceData, selectedCurrency)) ELSE res

\* faulty variant: every error of the first call is retried
isRateLimitedAnyError(error) == TRUE

\* if (error?.response?.status === 429)
isRateLimited(error) == error.status = 429

\* JSON.parse(priceRes ?? "{}")
priceDataOf(res) == JSONparse(IF res.def THEN res.text ELSE EmptyJson)

\* faulty variant: the range filter is applied whether or not it was asked for
passesPriceRangeAlways(priceData) ==
  ~(orEmpty(priceData, "lowest_price") = <<>>
    \/ ~isInPriceRange(orEmpty(priceData, "lowest_price"), selectedCurrency,
                       minPrice, maxPrice))

\* faulty variant: the range filter is never applied
passesPriceRangeNever(priceData) == TRUE

\* the price range filter: FALSE when the asset is skipped
passesPriceRange(priceData) ==
  LET lowestPrice == orEmpty(priceData, "lowest_price")
  IN  priceRangeFilter =>
        ~(lowestPrice = <<>>
          \/ ~isInPriceRange(lowestPrice, selectedCurrency, minPrice, maxPrice))

\* the object pushed to parsedItems
ParsedItem(desc, priceData) ==
  [Type |-> desc.type,
   MarketName |-> desc.market_name,
   MarketHashName |-> desc.market_hash_name,
   Marketable |-> IF desc.marketable = 1 THEN "Yes" ELSE "No",
   Exterior |-> tagName(desc, "Exterior"),
   ItemSet |-> tagName(desc, "ItemSet"),
   Quality |-> tagName(desc, "Quality"),
   Rarity |-> tagName(desc, "Rarity"),
   Weapon |-> tagName(desc, "Weapon"),
   LowestPrice |-> orEmpty(priceData, "lowest_price"),
   MedianPrice |-> orEmpty(priceData, "median_price"),
   Volume |-> orEmpty(priceData, "volume"),
   Currency |-> orEmpty(priceData, "currency")]

\* the quote an asset ended its encounter with, for the history
QuoteOf(priceData) ==
  [lowest_price |-> orEmpty(priceData, "lowest_price"),
   median_price |-> orEmpty(priceData, "median_price"),
   volume |-> orEmpty(priceData, "volume"),
   currency |-> orEmpty(priceData, "currency")]

PriceFieldsOf(item) == <<item.Marketable, <<item.LowestPrice, item.MedianPrice, item.Volume>> >>

\* `continue` before the cache is read: no description, or not a skin
SkipAsset ==
  /\ assetIdx' = assetIdx + 1
  /\ trace' = <<"skip">>
  /\ assetLog' = Append(assetLog, [classid |-> curAsset.classid,
                                   quote |-> QuoteOf(EmptyJson)])
  /\ UNCHANGED <<config, call, runLog, cache, files, now, pc, idIdx, steamId64, inventoryItems,
                 parsedItems, priceRes, inFlight, lastReturn, fetchedIn,
                 priceFields, idLog>>

\* Lines 352-386: parse priceRes, store it in the cache, filter, push; then
\* the loop moves to the next asset.  events is the encounter's trace so far.
FinishAsset(res, events) ==
  \E desc \in {curDesc}, priceData \in {priceDataOf(res)} :
  \E item \in {ParsedItem(desc, priceData)}, keep \in {passesPriceRange(priceData)} :
      /\ cache' = cacheSet(desc.market_hash_name, res)
      /\ parsedItems' = IF keep THEN Append(parsedItems, item) ELSE parsedItems
      /\ priceFields' =
           IF keep
           THEN [priceFields EXCEPT ![desc.market_hash_name] = @ \cup {PriceFieldsOf(item)}]
           ELSE priceFields
      /\ assetLog' = Append(assetLog, [classid |-> curAsset.classid,
                                       quote |-> QuoteOf(priceData)])
      /\ trace' = events \o <<IF keep THEN "push" ELSE "filtered">>
      /\ assetIdx' = assetIdx + 1
      /\ pc' = "asset"
      /\ priceRes' = Undefined
      /\ UNCHANGED <<config, call, files, now, idIdx, steamId64, inventoryItems,
                     fetchedIn, idLog>>

\* the asset reaching the cache lookup is marketable and the cache holds no
\* quote under its market_hash_name
MarketableUncached ==
  /\ curDesc.marketable # 0
  /\ ~(curDesc.market_hash_name \in DOMAIN cache /\ cache[curDesc.market_hash_name].def)

\* One iteration of the asset loop up to its first await, or to its end when
\* it awaits nothing.
Asset ==
  /\ pc = "asset"
  /\ assetIdx <= Len(inventoryItems.assets)
  /\ IF curDescIdx = 0 THEN SkipAsset
     ELSE IF skinsOnly /\ ~truthy(isWeaponSkin(curDesc)) THEN SkipAsset
     ELSE \E res \in {cacheGet(curDesc.market_hash_name)} :
            /\ runLog' = IF MarketableUncached THEN Append(runLog, "need") ELSE runLog
            /\ IF needsFetch(curDesc, res)
               THEN /\ pc' = "delay3000"
                    /\ priceRes' = res
                    /\ trace' = <<>>
                    /\ UNCHANGED <<config, call, cache, files, now, idIdx, steamId64,
                                   inventoryItems, assetIdx, parsedItems, inFlight,
                                   lastReturn, fetchedIn, priceFields, assetLog, idLog>>
               ELSE /\ FinishAsset(res, IF curDesc.marketable # 0 THEN <<"hit">> ELSE <<>>)
                    /\ UNCHANGED <<inFlight, lastReturn>>

\* faulty variant: two price requests are sent at once
SendPriceRequestTwice(events) ==
  /\ inFlight' = inFlight + 2
  /\ trace' = trace \o events
  /\ fetchedIn' = [fetchedIn EXCEPT
                     ![curDesc.market_hash_name] = @ \cup {<<idIdx, assetIdx>>}]
  /\ runLog' = runLog \o events
  /\ UNCHANGED <<config, call, cache, files, idIdx, steamId64, inventoryItems, assetIdx,
                 parsedItems, priceRes, lastReturn, priceFields, assetLog, idLog>>

\* a price request is sent for the encounter in progress
SendPriceRequest(events) ==
  /\ inFlight' = inFlight + 1
  /\ trace' = trace \o events
  /\ fetchedIn' = [fetchedIn EXCEPT
                     ![curDesc.market_hash_name] = @ \cup {<<idIdx, assetIdx>>}]
  /\ runLog' = runLog \o events
  /\ UNCHANGED <<config, call, cache, files, idIdx, steamId64, inventoryItems, assetIdx,
                 parsedItems, priceRes, lastReturn, priceFields, assetLog, idLog>>

\* await delay(3000) completes and the first price request is sent
Delay3000 ==
  /\ pc = "delay3000"
  /\ now' = now + FetchDelayMs
  /\ pc' = "call1"
  /\ SendPriceRequest(<<"delay3000", "call">>)

\* what the trace records of a price call's end
OutcomeOf(r) ==
  IF r.threw THEN (IF r.status = 429 THEN "429" ELSE "error")
  ELSE IF r.value.success THEN "success" ELSE "nodata"

\* priceRes once a call has returned a value or thrown an error that is
\* logged and dropped
priceResOf(r) == IF r.threw THEN priceRes ELSE priceResAfter(r.value, priceRes)

\* faulty variant: only a 429 of the first call is handled, other errors are rethrown
caughtRateLimitOnly(r, attempt) == attempt = 2 \/ r.status = 429

\* catch (error: any) around the first call, catch (retryError) around the
\* retry: whether the error a call threw is caught
caught(r, attempt) == TRUE

\* an error nothing catches rejects the top-level await: the run is over
Uncaught(r) ==
  /\ pc' = "aborted"
  /\ trace' = Append(trace, OutcomeOf(r))
  /\ UNCHANGED <<config, call, runLog, cache, files, now, idIdx, steamId64, inventoryItems,
                 assetIdx, parsedItems, priceRes, lastReturn, fetchedIn,
                 priceFields, assetLog, idLog>>

\* the first getSteamMarketPrice call returns or throws
FirstCall ==
  /\ pc = "call1"
  /\ inFlight' = inFlight - 1
  /\ \E res \in Responses :
       LET r == getSteamMarketPrice(res)
       IN  IF r.threw /\ ~caught(r, 1) THEN Uncaught(r)
           ELSE IF r.threw /\ isRateLimited(r)
           THEN /\ pc' = "delay5000"
                /\ trace' = Append(trace, OutcomeOf(r))
                /\ UNCHANGED <<config, call, runLog, cache, files, now, idIdx, steamId64,
                               inventoryItems, assetIdx, parsedItems, priceRes,
                               lastReturn, fetchedIn, priceFields, assetLog, idLog>>
           ELSE /\ FinishAsset(priceResOf(r), Append(trace, OutcomeOf(r)))
                /\ lastReturn' = IF r.threw THEN lastReturn ELSE r.value
                /\ UNCHANGED runLog

\* await delay(5000) completes and the retry is sent
Delay5000 ==
  /\ pc = "delay5000"
  /\ now' = now + BackoffMs
  /\ pc' = "call2"
  /\ SendPriceRequest(<<"delay5000", "call">>)

\* the retry returns or throws
RetryCall ==
  /\ pc = "call2"
  /\ inFlight' = inFlight - 1
  /\ \E res \in Responses :
       LET r == getSteamMarketPrice(res)
       IN  IF r.threw /\ ~caught(r, 2) THEN Uncaught(r)
           ELSE /\ FinishAsset(priceResOf(r), Append(trace, OutcomeOf(r)))
                /\ lastReturn' = IF r.threw THEN lastReturn ELSE r.value
                /\ UNCHANGED runLog

\* ------------------------------------------------------- identifier loop
\* What the profile page can answer: a profile with its steamID64, a profile
\* without one, a page that is no profile, or an HTTP error.
ResolverAnswers ==
  {[kind |-> "profile", steamID64 |-> "76561198074182328"],
   [kind |-> "profile", steamID64 |-> ""],
   [kind |-> "noProfile", steamID64 |-> ""],
   [kind |-> "httpError", steamID64 |-> ""]}

\* faulty variant: a profile without steamID64 is not rejected
resolvedAnyProfile(r) == r.kind = "profile"

resolved(r) == r.kind = "profile" /\ r.steamID64 # ""

\* the assets the inventories fetched so far in this run hold together
RECURSIVE AssetsSoFar(_)
AssetsSoFar(log) ==
  IF log = <<>> THEN 0 ELSE Head(log).assets + AssetsSoFar(Tail(log))

\* What the inventory endpoint can answer: an inventory, 401 for a private
\* one, another HTTP error, or a body that is no JSON.
InventoryAnswers ==
  {[kind |-> "inventory", inv |-> inv] : inv \in Inventories(MaxAssets - AssetsSoFar(idLog))}
    \cup {[kind |-> k, inv |-> NoInventory] : k \in {"private401", "httpError", "garbled"}}

\* the for-of loop over ids moves to identifier i: its profile is requested,
\* or the loop and the run end
StartId(i) ==
  /\ idIdx' = i
  /\ pc' = IF i <= Len(ids) THEN "resolve" ELSE "done"
  /\ steamId64' = ""
  /\ inventoryItems' = NoInventory
  /\ assetIdx' = 1
  /\ parsedItems' = <<>>
  /\ assetLog' = <<>>
  /\ trace' = <<>>

\* an identifier ended in `continue`: nothing is written for it
SkipId ==
  /\ StartId(idIdx + 1)
  /\ UNCHANGED <<config, call, runLog, cache, files, now, priceRes, inFlight, lastReturn,
                 fetchedIn, priceFields>>

\* the prompt is answered: the handler sets the configuration, the loop starts
Prompt ==
  /\ pc = "prompt"
  /\ \E a \in Answers :
       /\ ids' = parseIds(a.ids)
       /\ selectedCurrency' = toUpperCase(a.currency)
       /\ steamCurrencyId' = currencyIdOf(toUpperCase(a.currency))
       /\ exportFormat' = a.exportFormat
       /\ skinsOnly' = a.skinsOnly
       /\ priceRangeFilter' = a.priceRangeFilter
       /\ minPrice' = IF a.priceRangeFilter
                      THEN (IF a.minPrice # 0 THEN a.minPrice ELSE 0) ELSE minPrice
       /\ maxPrice' = IF a.priceRangeFilter
                      THEN (IF a.maxPrice # 0 THEN a.maxPrice ELSE Infinity) ELSE maxPrice
       /\ pc' = IF Len(parseIds(a.ids)) >= 1 THEN "resolve" ELSE "done"
  /\ UNCHANGED <<call, cache, files, now, idIdx, steamId64, inventoryItems, assetIdx,
                 parsedItems, priceRes, inFlight, history>>

\* the history's entry of an identifier whose profile request ended with r
IdEntry(r) ==
  [resolved |-> r.kind = "profile" /\ r.steamID64 # "", fetched |-> FALSE,
   assets |-> 0, visited |-> 0, exported |-> FALSE]

\* the profile request ends
Resolve ==
  /\ pc = "resolve"
  /\ \E r \in ResolverAnswers :
       /\ idLog' = Append(idLog, IdEntry(r))
       /\ IF resolved(r)
          THEN /\ steamId64' = r.steamID64
               /\ pc' = "inventory"
               /\ UNCHANGED <<config, call, runLog, cache, files, now, idIdx, inventoryItems,
                              assetIdx, parsedItems, priceRes, inFlight, trace,
                              lastReturn, fetchedIn, priceFields, assetLog>>
          ELSE SkipId

\* the inventory request ends
Inventory ==
  /\ pc = "inventory"
  /\ \E r \in InventoryAnswers :
       /\ idLog' = [idLog EXCEPT ![idIdx].fetched = (r.kind = "inventory"),
                                 ![idIdx].assets = Len(r.inv.assets)]
       /\ IF r.kind = "inventory"
          THEN /\ inventoryItems' = r.inv
               /\ parsedItems' = <<>>
               /\ assetIdx' = 1
               /\ pc' = "asset"
               /\ UNCHANGED <<config, call, runLog, cache, files, now, idIdx, steamId64, priceRes,
                              inFlight, trace, lastReturn, fetchedIn, priceFields,
                              assetLog>>
          ELSE SkipId

\* Math.round(new Date().getTime() / 1000)
timestampOf(ms) == (ms + 500) \div 1000

Columns ==
  <<"Type", "MarketName", "MarketHashName", "Marketable", "Exterior", "ItemSet",
    "Quality", "Rarity", "Weapon", "LowestPrice", "MedianPrice", "Volume", "Currency">>

\* stringify(parsedItems, { header: true }): the header row, found in the
\* first record, then one row per record; nothing for no record
csvStringify(items) ==
  IF items = <<>> THEN <<>>
  ELSE <<Columns>> \o [i \in 1..Len(items) |-> [c \in 1..Len(Columns) |-> items[i][Columns[c]]]]

\* JSON.stringify(parsedItems, null, 2): the array of the records' members
jsonStringify(items) ==
  [i \in 1..Len(items) |-> [c \in 1..Len(Columns) |-> <<Columns[c], items[i][Columns[c]]>>]]

fileName(base, ext) == [base |-> base, ext |-> ext]

\* fs.writeFileSync(name, content)
writeFileSync(fs, name, content) ==
  [n \in DOMAIN fs \cup {name} |-> IF n = name THEN content ELSE fs[n]]

\* exportedExts taking every format but csv for json alone
exportedExtsOneFile ==
  IF exportFormat = "csv" THEN {"csv"} ELSE {"json"}

\* the files the export writes for the formats selected
exportedExts ==
  (IF exportFormat = "csv" \/ exportFormat = "all" THEN {"csv"} ELSE {})
    \cup (IF exportFormat = "json" \/ exportFormat = "all" THEN {"json"} ELSE {})

\* the asset loop is over: the records are written, the next identifier starts
Export ==
  /\ pc = "asset"
  /\ assetIdx > Len(inventoryItems.assets)
  /\ LET baseFilename == <<ids[idIdx], steamId64, timestampOf(now)>>
         withCsv == IF "csv" \in exportedExts
                    THEN writeFileSync(files, fileName(baseFilename, "csv"),
                                       csvStringify(parsedItems))
                    ELSE files
         withJson == IF "json" \in exportedExts
                     THEN writeFileSync(withCsv, fileName(baseFilename, "json"),
                                        jsonStringify(parsedItems))
                     ELSE withCsv
     IN  files' = withJson
  /\ idLog' = [idLog EXCEPT ![idIdx].visited = Len(assetLog),
                            ![idIdx].exported = TRUE]
  /\ StartId(idIdx + 1)
  /\ UNCHANGED <<config, call, runLog, cache, now, priceRes, inFlight, lastReturn, fetchedIn,
                 priceFields>>

Next ==
  \/ Prompt
  \/ Resolve
  \/ Inventory
  \/ Asset
  \/ Delay3000
  \/ FirstCall
  \/ Delay5000
  \/ RetryCall
  \/ Export

Spec == Init /\ [][Next]_vars

\* The driver is one chain of awaits: whenever a step is possible (a timer
\* fires, a request is answered or times out after 15 s) it is taken.
FairSpec == Spec /\ WF_vars(Next)

\* ------------------------------------------------- functions on their own
\* everything the running program changes
program == <<config, cache, files, now, pc, idIdx, steamId64, inventoryItems,
             assetIdx, parsedItems, priceRes, inFlight, history>>

\* bound on the length of the enumerated price strings
MaxLen == 5

\* the characters price strings are enumerated over: digits, both separators
\* and a currency symbol
PriceChars == {"0", "1", ",", ".", "$"}

\* the price strings of the comments in parsePriceValue and a few longer ones
PriceExamples ==
  { <<"$", "1", "9", ".", "5", "0">>,
    <<"1", "9", ",", "5", "0", "E">>,
    <<"R", "$", " ", "1", "0", "0", ",", "0", "0">>,
    <<"Y", "1", ",", "2", "3", "4">>,
    <<"1", ",", "2", "3", "4", ".", "5", "6">>,
    <<"1", ".", "2", "3", "4", ",", "5", "6">>,
    <<"1", ",", "2", "3", "4", ",", "5", "6", "7">>,
    <<"1", ".", "2", ".", "3">>,
    <<"a", "b", "c">> }

PriceStrings == UNION {[1..n -> PriceChars] : n \in 0..MaxLen} \cup PriceExamples

\* type labels: skins, one label for each excluded word, and labels that hold
\* an excluded word in another case or inside a longer word
TypeLabels ==
  { <<"R", "i", "f", "l", "e">>,
    <<"P", "i", "s", "t", "o", "l">>,
    <<"K", "n", "i", "f", "e">>,
    <<"S", "n", "i", "p", "e", "r", " ", "R", "i", "f", "l", "e">>,
    <<"B", "a", "s", "e", " ", "G", "r", "a", "d", "e", " ", "C", "o", "n", "t", "a", "i", "n", "e", "r">>,
    <<"W", "e", "a", "p", "o", "n", " ", "C", "a", "s", "e">>,
    <<"K", "e", "y">>,
    <<"S", "t", "i", "c", "k", "e", "r">>,
    <<"G", "r", "a", "f", "f", "i", "t", "i">>,
    <<"P", "a", "t", "c", "h">>,
    <<"C", "o", "l", "l", "e", "c", "t", "i", "b", "l", "e", " ", "P", "i", "n">>,
    <<"M", "u", "s", "i", "c", " ", "K", "i", "t">>,
    <<"P", "a", "s", "s">>,
    <<"T", "o", "o", "l">>,
    <<"G", "i", "f", "t">>,
    <<"T", "a", "g">>,
    <<"C", "o", "i", "n">>,
    <<"C", "A", "S", "E">>,
    <<"V", "i", "n", "t", "a", "g", "e", " ", "R", "i", "f", "l", "e">>,
    <<"M", "u", "s", "i", "c">>,
    <<"K", "i", "t">> }

WeaponTag == [category |-> "Weapon", localized_tag_name |-> "AK-47"]
ExteriorTag == [category |-> "Exterior", localized_tag_name |-> "Field-Tested"]
QualityTag == [category |-> "Quality", localized_tag_name |-> "Normal"]

TagSets ==
  { <<>>, <<QualityTag>>, <<WeaponTag>>, <<ExteriorTag>>, <<QualityTag, WeaponTag>>,
    <<QualityTag, ExteriorTag>>, <<WeaponTag, QualityTag, ExteriorTag>> }

\* descriptions with and without a type and with and without a tag set
DescInputs ==
  {[classid |-> 1, type |-> t, tags |-> g] : t \in TypeLabels, g \in TagSets}
    \cup {[classid |-> 1, tags |-> g] : g \in TagSets}
    \cup {[classid |-> 1, type |-> t] : t \in TypeLabels}
    \cup {[classid |-> 1]}

Applications ==
  {[fn |-> "isWeaponSkin", arg |-> desc] : desc \in DescInputs}
    \cup {[fn |-> "parsePriceValue", arg |-> priceString] : priceString \in PriceStrings}

returned == "result" \in DOMAIN call

CallInit == ProgramStart /\ call \in Applications

ApplyIsWeaponSkin ==
  /\ call.fn = "isWeaponSkin"
  /\ ~returned
  /\ call' = [fn |-> call.fn, arg |-> call.arg, result |-> isWeaponSkin(call.arg)]
  /\ UNCHANGED program

ApplyParsePriceValue ==
  /\ call.fn = "parsePriceValue"
  /\ ~returned
  /\ call' = [fn |-> call.fn, arg |-> call.arg, result |-> parsePriceValue(call.arg)]
  /\ UNCHANGED program

CallNext ==
  \/ ApplyIsWeaponSkin
  \/ ApplyParsePriceValue

CallSpec == CallInit /\ [][CallNext]_vars

\* ------------------------------------------------------------------ claims
\* the asset whose encounter ended last, and its description
prevAsset == inventoryItems.assets[assetIdx - 1]
prevDesc ==
  inventoryItems.descriptions[findDesc(inventoryItems.descriptions, prevAsset.classid)]

\* the positions of the trace at which a price request was sent
Calls == {i \in 1..Len(trace) : trace[i] = "call"}
Events == {trace[i] : i \in 1..Len(trace)}

\* an encounter has just ended after calling the fetcher
FetchEnded ==
  /\ pc = "asset"
  /\ Calls # {}
  /\ trace[Len(trace)] \in {"push", "filtered"}

\* C1: within one run the price fetcher is invoked during at most one of the
\* encounters of the marketable assets that share a market-lookup name,
\* whatever the outcome of the first invocation.
C1_FetchedInOneEncounter ==
  \A n \in Names : Cardinality(fetchedIn[n]) <= 1

\* C2: all records produced in one run for the marketable assets that share a
\* market-lookup name carry identical LowestPrice, MedianPrice and Volume.
C2_SamePriceFields ==
  \A n \in Names : Cardinality({f \in priceFields[n] : f[1] = "Yes"}) <= 1

\* C3: in one encounter the first price call follows the 3 s delay; a second
\* call is sent only after the first was rejected with 429 and the 5 s backoff
\* completed; there is no third call, and no call after a call that ended in
\* success, no data or another error.
C3_RetryOnlyAfter429 ==
  /\ Cardinality(Calls) <= 2
  /\ \A i \in Calls :
       \/ i = 2 /\ trace[1] = "delay3000"
       \/ i = 5 /\ trace[2] = "call" /\ trace[3] = "429" /\ trace[4] = "delay5000"
  /\ \A i \in 1..Len(trace) :
       trace[i] \in {"success", "nodata", "error"} => \A j \in Calls : j < i
  /\ pc = "call2" => trace = <<"delay3000", "call", "429", "delay5000", "call">>

C3_Witness ==
  /\ FetchEnded
  /\ Cardinality(Calls) = 2

\* the first call of the encounter just ended was throttled and the retry
\* returned a successful quote
RetrySucceeded ==
  /\ FetchEnded
  /\ trace[3] = "429"
  /\ trace[6] = "success"

\* C4: when the first call is throttled and the retry returns a successful
\* quote, the cache holds that quote for the market-lookup name, and the
\* asset's record carries its lowest price, median price and volume.
C4_RetriedQuoteUsed ==
  RetrySucceeded =>
    /\ cacheGet(prevDesc.market_hash_name).def
    /\ QuoteOf(priceDataOf(cacheGet(prevDesc.market_hash_name)))
         = [lowest_price |-> lastReturn.lowest_price,
            median_price |-> lastReturn.median_price,
            volume |-> lastReturn.volume,
            currency |-> selectedCurrency]
    /\ trace[Len(trace)] = "push" =>
         LET item == parsedItems[Len(parsedItems)]
         IN  /\ item.MarketHashName = prevDesc.market_hash_name
             /\ item.LowestPrice = lastReturn.lowest_price
             /\ item.MedianPrice = lastReturn.median_price
             /\ item.Volume = lastReturn.volume

C4_Witness ==
  /\ RetrySucceeded
  /\ trace[Len(trace)] = "push"
  /\ lastReturn.lowest_price = <<"$", "1", "0", ".", "5", "0">>

\* every asset of every identifier whose profile and inventory were fetched
\* has been visited
VisitedAll ==
  /\ Len(idLog) = Len(ids)
  /\ \A i \in 1..Len(idLog) :
       idLog[i].fetched => idLog[i].exported /\ idLog[i].visited = idLog[i].assets

\* C5: no outcome of a price call aborts the run: when a price call ends the
\* loop goes on (to the backoff or to the rest of the iteration), and the run
\* eventually finishes having visited every asset of every identifier whose
\* resolution and inventory fetch succeeded.
C5_RunFinishes ==
  /\ [][(pc \in {"call1", "call2"}) => (pc' \in {"delay5000", "asset"})]_vars
  /\ <>(pc = "done" /\ VisitedAll)

C5_Witness ==
  /\ pc = "done"
  /\ VisitedAll
  /\ \E n \in Names : fetchedIn[n] # {} /\ ~cacheGet(n).def

\* C6: when the fetch ends without a successful quote and no price range
\* filter is active, the asset yields a record whose LowestPrice, MedianPrice
\* and Volume are empty.
C6_FailedFetchEmptyRecord ==
  (FetchEnded /\ "success" \notin Events /\ ~priceRangeFilter) =>
    /\ trace[Len(trace)] = "push"
    /\ parsedItems # <<>>
    /\ LET item == parsedItems[Len(parsedItems)]
       IN  /\ item.MarketHashName = prevDesc.market_hash_name
           /\ item.LowestPrice = <<>>
           /\ item.MedianPrice = <<>>
           /\ item.Volume = <<>>

C6_Witness ==
  /\ FetchEnded
  /\ ~priceRangeFilter
  /\ trace = <<"delay3000", "call", "429", "delay5000", "call", "error", "push">>

\* the files written under identifier i's name
FilesOf(i) == {f \in DOMAIN files : f.base[1] = ids[i]}

\* C7: identifiers are processed in input order; an identifier whose
\* resolution or inventory fetch failed has no output file and the loop goes
\* on with the next one; one whose both succeeded has its output files once
\* its asset loop is over, even with no record.
C7_FilesPerIdentifier ==
  /\ pc \in {"resolve", "done"} => Len(idLog) = idIdx - 1
  /\ pc \in {"inventory", "asset", "delay3000", "call1", "delay5000", "call2"} =>
       Len(idLog) = idIdx
  /\ pc = "done" => Len(idLog) = Len(ids)
  /\ \A i \in 1..Len(ids) :
       IF i <= Len(idLog) /\ idLog[i].resolved /\ idLog[i].fetched
       THEN i < idIdx => FilesOf(i) # {}
       ELSE FilesOf(i) = {}

C7_Witness ==
  /\ pc = "done"
  /\ Len(ids) = 2
  /\ ~idLog[1].fetched
  /\ idLog[2].fetched
  /\ FilesOf(2) # {}
  /\ \A f \in FilesOf(2) : files[f] = <<>>

\* an asset of the log has a description and passes the skins-only filter
ReachedQuote(e) ==
  LET i == findDesc(inventoryItems.descriptions, e.classid)
  IN  /\ i # 0
      /\ skinsOnly => truthy(isWeaponSkin(inventoryItems.descriptions[i]))

\* the records of the logged assets that satisfy Keep, in the assets' order
ItemsOf(Keep(_)) ==
  LET kept == SelectSeq(assetLog, Keep)
  IN  [k \in 1..Len(kept) |->
         ParsedItem(inventoryItems.descriptions[
                      findDesc(inventoryItems.descriptions, kept[k].classid)],
                    kept[k].quote)]

SurvivesFilters(e) ==
  /\ ReachedQuote(e)
  /\ priceRangeFilter =>
       /\ e.quote.lowest_price # <<>>
       /\ isInPriceRange(e.quote.lowest_price, selectedCurrency, minPrice, maxPrice)

\* C8: the output sequence holds exactly one record per visited asset that
\* has a description, passes the skins-only filter when enabled and passes
\* the price range filter when enabled, none for another asset, in the
\* assets' order.
C8_OneRecordPerSurvivor ==
  /\ pc \in {"asset", "delay3000", "call1", "delay5000", "call2"} =>
       Len(assetLog) = assetIdx - 1
  /\ parsedItems = ItemsOf(SurvivesFilters)

C8_Witness ==
  /\ pc = "asset"
  /\ skinsOnly
  /\ priceRangeFilter
  /\ Len(assetLog) = 2
  /\ Len(parsedItems) = 1
  /\ ReachedQuote(assetLog[1])
  /\ ~ReachedQuote(assetLog[2])

\* C9: the record of an asset whose description is not marketable has empty
\* LowestPrice, MedianPrice, Volume and Currency, whatever the cache holds.
C9_NotMarketableEmptyQuote ==
  \A i \in 1..Len(parsedItems) :
    parsedItems[i].Marketable = "No" =>
      /\ parsedItems[i].LowestPrice = <<>>
      /\ parsedItems[i].MedianPrice = <<>>
      /\ parsedItems[i].Volume = <<>>
      /\ parsedItems[i].Currency = <<>>

\* the price string parses to a number v with minPrice <= v <= maxPrice
ParsesIntoRange(s) ==
  LET v == parsePriceValue(s)
  IN  /\ ~v.isNull
      /\ v.num >= minPrice * Pow10(v.scale)
      /\ maxPrice # Infinity => v.num <= maxPrice * Pow10(v.scale)

InRangeUSD(e) == ReachedQuote(e) /\ ParsesIntoRange(e.quote.lowest_price)

\* C10: with the price range filter active and currency USD, an asset that
\* reached the filter yields a record if and only if its lowest-price string
\* parses to a number v with min <= v <= max; an empty or unparseable string
\* yields none.
C10_RangeFilterUSD ==
  (priceRangeFilter /\ selectedCurrency = USD) => parsedItems = ItemsOf(InRangeUSD)

C10_Witness ==
  /\ priceRangeFilter
  /\ selectedCurrency = USD
  /\ minPrice = 5
  /\ pc = "asset"
  /\ Len(assetLog) = 2
  /\ assetLog[1].quote.lowest_price = <<"N", "/", "A">>
  /\ assetLog[2].quote.lowest_price = <<"$", "5", ".", "0", "0">>
  /\ Len(parsedItems) = 1

\* an asset of the log reached the range filter with a lowest-price string
\* that parses to a number
ReachedParsed(e) == ReachedQuote(e) /\ ~parsePriceValue(e.quote.lowest_price).isNull

\* C11 as stated: with the price range filter active and a currency other
\* than USD no asset is excluded by the range filter: every asset that has a
\* description and passes the skins-only filter yields a record, whatever its
\* price string is.
C11_NoExclusionOtherCurrency ==
  (priceRangeFilter /\ selectedCurrency # USD) => parsedItems = ItemsOf(ReachedQuote)

\* C11 as amended: with the price range filter active and a currency other
\* than USD, an asset that reached the filter yields a record if and only if
\* its lowest-price string parses to a number, whatever that number is.
C11_OtherCurrencyKeepsParsed ==
  (priceRangeFilter /\ selectedCurrency # USD) => parsedItems = ItemsOf(ReachedParsed)

C11_Witness ==
  /\ priceRangeFilter
  /\ selectedCurrency = EUR
  /\ maxPrice = 5
  /\ pc = "asset"
  /\ Len(assetLog) = 2
  /\ assetLog[1].quote.lowest_price = <<"N", "/", "A">>
  /\ assetLog[2].quote.lowest_price = <<"$", "1", "0", ".", "5", "0">>
  /\ Len(parsedItems) = 1

\* the positions of the run's log holding an event
At(event) == {i \in 1..Len(runLog) : runLog[i] = event}

\* the first-attempt price calls of the run: the calls that are no retry
FirstCalls == {i \in At("call") : i = 1 \/ runLog[i - 1] # "delay5000"}

ExclusionWords ==
  { <<"c", "o", "n", "t", "a", "i", "n", "e", "r">>, <<"c", "a", "s", "e">>,
    <<"k", "e", "y">>, <<"s", "t", "i", "c", "k", "e", "r">>,
    <<"g", "r", "a", "f", "f", "i", "t", "i">>, <<"p", "a", "t", "c", "h">>,
    <<"p", "i", "n">>, <<"m", "u", "s", "i", "c", " ", "k", "i", "t">>,
    <<"p", "a", "s", "s">>, <<"t", "o", "o", "l">>, <<"g", "i", "f", "t">>,
    <<"t", "a", "g">>, <<"c", "o", "i", "n">> }

\* the lower-cased type label of desc holds none of the exclusion words
CleanType(desc) ==
  \/ "type" \notin DOMAIN desc
  \/ \A word \in ExclusionWords : ~includes(toLowerCase(desc.type), word)

\* desc carries a tag of category Weapon or Exterior
WeaponOrExterior(desc) ==
  /\ "tags" \in DOMAIN desc
  /\ \E i \in 1..Len(desc.tags) : desc.tags[i].category \in {"Weapon", "Exterior"}

AppliedIsWeaponSkin == call.fn = "isWeaponSkin" /\ returned

\* C13: isWeaponSkin is true exactly when the lower-cased type holds none of
\* the thirteen exclusion words and a Weapon or Exterior tag is present; an
\* excluded type yields false whatever the tags, and a missing tag set yields
\* false.
C13_IsWeaponSkin ==
  AppliedIsWeaponSkin =>
    /\ call.result = "true" <=> (CleanType(call.arg) /\ WeaponOrExterior(call.arg))
    /\ ~CleanType(call.arg) => call.result = "false"
    /\ "tags" \notin DOMAIN call.arg => call.result = "false"

\* C13, as far as the callers can tell: the result is truthy exactly when the
\* type is clean and a Weapon or Exterior tag is present, and an excluded type
\* yields false.
C13_Truthiness ==
  AppliedIsWeaponSkin =>
    /\ truthy(call.result) <=> (CleanType(call.arg) /\ WeaponOrExterior(call.arg))
    /\ ~CleanType(call.arg) => call.result = "false"

\* isWeaponSkin has returned undefined for a description without a tag set
C13_UndefinedReturned ==
  /\ AppliedIsWeaponSkin
  /\ "tags" \notin DOMAIN call.arg
  /\ call.result = "undefined"

AppliedParsePriceValue == call.fn = "parsePriceValue" /\ returned

\* the digits, commas and periods of a price string, in order
Kept(priceString) == SelectSeq(priceString, LAMBDA c : c \in Digits \cup {",", "."})

Has(s, c) == \E i \in 1..Len(s) : s[i] = c

\* whichever of comma and period occurs last in s, and the other one
LastSeparator(s) ==
  s[CHOOSE i \in 1..Len(s) :
      /\ s[i] \in {",", "."}
      /\ \A j \in (i + 1)..Len(s) : s[j] \notin {",", "."}]

OtherSeparator(c) == IF c = "," THEN "." ELSE ","

\* s with every occurrence of drop removed and every occurrence of point
\* written as a period
WithDecimalPoint(s, point, drop) ==
  LET rest == SelectSeq(s, LAMBDA c : c # drop)
  IN  [i \in 1..Len(rest) |-> IF rest[i] = point THEN "." ELSE rest[i]]

\* the number a numeral with a decimal point reads as, null if it reads as none
Reading(numeral) ==
  LET value == parseFloat(numeral)
  IN  IF value.nan THEN Null
      ELSE [isNull |-> FALSE, num |-> value.num, scale |-> value.scale]

\* the decimal number num / 10^scale
Decimal(num, scale) == [isNull |-> FALSE, num |-> num, scale |-> scale]

\* C14: when the cleaned form of a price string holds both a comma and a
\* period, the result of parsePriceValue is the reading of the cleaned form
\* with the character of the two that occurs last as the decimal point and
\* every occurrence of the other one removed; "1,234.56" and "1.234,56" both
\* give 1234.56.
C14_LastSeparatorIsDecimal ==
  (/\ AppliedParsePriceValue
   /\ Has(Kept(call.arg), ",")
   /\ Has(Kept(call.arg), "."))
    => /\ call.result =
            Reading(WithDecimalPoint(Kept(call.arg), LastSeparator(Kept(call.arg)),
                                     OtherSeparator(LastSeparator(Kept(call.arg)))))
       /\ call.arg \in { <<"1", ",", "2", "3", "4", ".", "5", "6">>,
                         <<"1", ".", "2", "3", "4", ",", "5", "6">> }
            => call.result = Decimal(123456, 2)

\* parsePriceValue has read "1.234,56" as 1234.56
C14_Witness ==
  /\ AppliedParsePriceValue
  /\ call.arg = <<"1", ".", "2", "3", "4", ",", "5", "6">>
  /\ call.result = Decimal(123456, 2)

\* every comma of s is one of its last 3 characters
CommasNearEnd(s) == \A i \in 1..Len(s) : s[i] = "," => i > Len(s) - 3

ValidNumeral(s) ==
  /\ \A i \in 1..Len(s) : s[i] \in Digits \cup {"."}
  /\ \A i, j \in 1..Len(s) : (s[i] = "." /\ s[j] = ".") => i = j
  /\ \E i \in 1..Len(s) : s[i] \in Digits

\* C16: parsePriceValue returns null for every input that is empty or whose
\* cleaned, separator-normalized form is not a valid numeral (no digit, two
\* periods), and a number only when that form is a valid numeral.
C16_NullUnlessValidNumeral ==
  AppliedParsePriceValue =>
    (call.result.isNull <=>
       (call.arg = <<>> \/ ~ValidNumeral(normalizedOf(Kept(call.arg)))))

\* the records a CSV file holds: its rows after the header row, by column name
RecordsOfCsv(content) ==
  IF content = <<>> THEN <<>>
  ELSE [i \in 1..(Len(content) - 1) |->
         [c \in {content[1][k] : k \in 1..Len(content[1])} |->
            content[i + 1][CHOOSE k \in 1..Len(content[1]) : content[1][k] = c]]]

\* the records a JSON file holds: the members of each element of its array
RecordsOfJson(content) ==
  [i \in 1..Len(content) |->
     [c \in {content[i][k][1] : k \in 1..Len(content[i])} |->
        content[i][CHOOSE k \in 1..Len(content[i]) : content[i][k][1] = c][2]]]

RecordsOf(f, content) ==
  IF f.ext = "csv" THEN RecordsOfCsv(content) ELSE RecordsOfJson(content)

\* the extensions the selected format asks for
FormatExts ==
  CASE exportFormat = "csv" -> {"csv"}
    [] exportFormat = "json" -> {"json"}
    [] exportFormat = "all" -> {"csv", "json"}

\* the asset loop of the current identifier is over and its output is due
ExportDue == pc = "asset" /\ assetIdx > Len(inventoryItems.assets)

\* f is named identifier, account id and the time in seconds, to the nearest second
NamedAfterRun(f) ==
  /\ Len(f.base) = 3
  /\ f.base[1] = ids[idIdx]
  /\ f.base[2] = steamId64
  /\ f.base[3] * 1000 - now \in -499..500

\* C17: the step that writes an identifier's output writes exactly one file
\* per extension of the selected format (csv, json, or both for all), each
\* named identifier_accountId_unixTimestamp.ext with one base name for both,
\* each holding the identifier's record sequence; no other file changes.
C17_ExportedFiles ==
  [][ExportDue =>
       \E written \in SUBSET (DOMAIN files') :
         /\ DOMAIN files' = DOMAIN files \cup written
         /\ {f.ext : f \in written} = FormatExts
         /\ Cardinality(written) = Cardinality(FormatExts)
         /\ \A f, g \in written : f.base = g.base
         /\ \A f \in written :
              /\ NamedAfterRun(f)
              /\ RecordsOf(f, files'[f]) = parsedItems
         /\ \A f \in DOMAIN files \ written : files'[f] = files[f]]_vars

\* both files of one identifier are written, under one base name, with the
\* same two records
C17_Witness ==
  /\ pc = "done"
  /\ exportFormat = "all"
  /\ \E f, g \in DOMAIN files :
       /\ f.ext = "csv" /\ g.ext = "json"
       /\ f.base = g.base
       /\ Len(RecordsOfCsv(files[f])) = 2
       /\ RecordsOfCsv(files[f]) = RecordsOfJson(files[g])

\* C18: whenever the price-range filter is active the bounds satisfy
\* max > min > 0, the prompt rejecting a minimum that is not strictly
\* positive and a maximum that is not strictly greater than the minimum.
C18_BoundsStrictlyPositive ==
  priceRangeFilter => (maxPrice # Infinity /\ maxPrice > minPrice /\ minPrice > 0)

\* C18, with the minimum the prompt accepts: whenever the price-range filter
\* is active the bounds satisfy max > min >= 0, the prompt rejecting a
\* negative minimum and a maximum that is not strictly greater than the
\* minimum.
C18_BoundsNonNegative ==
  priceRangeFilter => (maxPrice # Infinity /\ maxPrice > minPrice /\ minPrice >= 0)

\* a run has ended that filtered with the minimum 0
C18_Witness ==
  /\ pc = "done"
  /\ priceRangeFilter
  /\ minPrice = 0
  /\ maxPrice = 5

\* id holds a path separator or a parent-directory component
UnsafeForPath(id) ==
  \/ \E i \in 1..Len(id) : id[i] \in {"/", "\\"}
  \/ \E i \in 1..(Len(id) - 1) : id[i] = "." /\ id[i + 1] = "."

\* C19: identifiers are validated before use; one that holds a path separator
\* or a parent-directory component never becomes the leading component of an
\* output file name.
C19_NoPathInFileName ==
  \A f \in DOMAIN files : ~UnsafeForPath(f.base[1])

\* the asset loop is at an asset whose class identifier no description carries
MissingDescription ==
  /\ pc = "asset"
  /\ assetIdx <= Len(inventoryItems.assets)
  /\ \A i \in 1..Len(inventoryItems.descriptions) :
       inventoryItems.descriptions[i].classid # inventoryItems.assets[assetIdx].classid

\* C20: an asset whose class identifier matches no description is skipped: the
\* step yields no record, sends no price call, waits for no delay, writes
\* nothing to the cache, and leaves the loop at the next asset of the same
\* identifier.
C20_MissingDescriptionSkipped ==
  [][MissingDescription =>
       /\ parsedItems' = parsedItems
       /\ inFlight' = inFlight
       /\ runLog' = runLog
       /\ fetchedIn' = fetchedIn
       /\ now' = now
       /\ cache' = cache
       /\ files' = files
       /\ pc' = "asset"
       /\ idIdx' = idIdx
       /\ assetIdx' = assetIdx + 1]_vars

\* an asset without description was skipped and the next asset gave a record
C20_Witness ==
  /\ Len(assetLog) = 2
  /\ \A i \in 1..Len(inventoryItems.descriptions) :
       inventoryItems.descriptions[i].classid # assetLog[1].classid
  /\ trace # <<>>
  /\ trace[Len(trace)] = "push"
  /\ Len(parsedItems) = 1

\* a step that issues a price call
CallIssued == inFlight' > inFlight

\* C21: at most one price call is in flight at any time; a price call, first
\* attempt or retry, is issued only when no earlier call is pending and at
\* the end of its delay or backoff; identifiers are taken one after another
\* in input order and, within an identifier, assets one after another.
C21_OneCallInFlight ==
  /\ [](inFlight \in {0, 1})
  /\ [][/\ CallIssued =>
             /\ inFlight = 0
             /\ pc \in {"delay3000", "delay5000"}
             /\ now' = now + (IF pc = "delay3000" THEN 3000 ELSE 5000)
        /\ idIdx' \in {idIdx, idIdx + 1}
        /\ idIdx' = idIdx + 1 => assetIdx' = 1
        /\ idIdx' = idIdx => assetIdx' \in {assetIdx, assetIdx + 1}
        /\ pc \in {"delay3000", "call1", "delay5000", "call2"} =>
             (idIdx' = idIdx /\ (assetIdx' = assetIdx \/ pc' = "asset"))]_vars

\* the retry for the second asset is in flight, alone, after three earlier calls
C21_Witness ==
  /\ pc = "call2"
  /\ inFlight = 1
  /\ assetIdx = 2
  /\ Cardinality({i \in 1..Len(runLog) : runLog[i] = "call"}) = 4

\* the descriptions that carry the class identifier of the current asset
Matching ==
  {d \in {inventoryItems.descriptions[i] : i \in 1..Len(inventoryItems.descriptions)} :
     d.classid = inventoryItems.assets[assetIdx].classid}

\* the cache holds a quote under name
Quoted(name) == name \in DOMAIN cache /\ cache[name].def

\* the asset loop is at an asset with a description that the skins-only
\* filter removes
RemovedBySkinsOnly ==
  /\ pc = "asset"
  /\ assetIdx <= Len(inventoryItems.assets)
  /\ Matching # {}
  /\ skinsOnly
  /\ \A d \in Matching : ~(CleanType(d) /\ WeaponOrExterior(d))

\* C22: a price call is issued for an asset only if the asset has a matching
\* description, passes the skins-only filter when it is enabled, its
\* description is marketable and the cache holds no quote for its name; an
\* asset the skins-only filter removes changes neither the cache nor the
\* number of calls.
C22_CallOnlyIfNeeded ==
  [][/\ CallIssued =>
          /\ assetIdx \in 1..Len(inventoryItems.assets)
          /\ Matching # {}
          /\ \A d \in Matching :
               /\ skinsOnly => (CleanType(d) /\ WeaponOrExterior(d))
               /\ d.marketable # 0
               /\ ~Quoted(d.market_hash_name)
     /\ RemovedBySkinsOnly =>
          /\ cache' = cache
          /\ inFlight' = inFlight
          /\ runLog' = runLog
          /\ fetchedIn' = fetchedIn]_vars

\* with skins only, a case was removed and a call is in flight for the rifle
\* that follows it, the only call of the run
C22_Witness ==
  /\ skinsOnly
  /\ pc = "call1"
  /\ assetIdx = 2
  /\ inventoryItems.assets[1].classid = 3
  /\ inventoryItems.assets[2].classid = 1
  /\ runLog = <<"need", "delay3000", "call">>
  /\ cache = <<>>

\* the value a stored quote text holds under key, empty if it holds none
Member(text, key) ==
  IF \E i \in 1..Len(text) : text[i][1] = key
  THEN (CHOOSE m \in {text[i] : i \in 1..Len(text)} : m[1] = key)[2]
  ELSE <<>>

\* the step appends a record for name
RecordAdded(name) ==
  /\ Len(parsedItems') = Len(parsedItems) + 1
  /\ parsedItems'[Len(parsedItems')].MarketHashName = name

\* C23: the cache is shared by all identifiers of a run: once a quote is
\* stored for a name, the stored value never changes, no further price call
\* is made for that name under the same or a later identifier, and every
\* later record for that name carries exactly that quote.
C23_CachedQuoteIsFinal ==
  [][\A name \in DOMAIN cache :
       cache[name].def =>
         /\ name \in DOMAIN cache'
         /\ cache'[name] = cache[name]
         /\ fetchedIn'[name] = fetchedIn[name]
         /\ CallIssued => \A d \in Matching : d.market_hash_name # name
         /\ RecordAdded(name) =>
              LET item == parsedItems'[Len(parsedItems')]
              IN  /\ item.LowestPrice = Member(cache[name].text, "lowest_price")
                  /\ item.MedianPrice = Member(cache[name].text, "median_price")
                  /\ item.Volume = Member(cache[name].text, "volume")
                  /\ item.Currency = Member(cache[name].text, "currency")]_vars

\* the second identifier's record was built from the quote the first
\* identifier fetched, without another call
C23_Witness ==
  /\ idIdx = 2
  /\ pc = "asset"
  /\ trace = <<"hit", "push">>
  /\ Len(parsedItems) = 1
  /\ fetchedIn[parsedItems[1].MarketHashName] = {<<1, 1>>}
  /\ parsedItems[1].LowestPrice # <<>>
  /\ Cardinality({i \in 1..Len(runLog) : runLog[i] = "call"}) = 1

\* the step appends a record
RecordPushed == Len(parsedItems') = Len(parsedItems) + 1

\* the price call of the encounter that ends with this step succeeded
QuoteFromCall == \E i \in 1..Len(trace') : trace'[i] = "success"

\* C24: a record's Currency field is the currency selected for the run
\* exactly when its quote comes from a successful price call, made in its own
\* encounter or found in the cache; a record built from an empty quote has
\* the empty string as Currency.
C24_CurrencyIffQuote ==
  [][RecordPushed =>
       \E item \in {parsedItems'[Len(parsedItems')]} :
         \E quoted \in {QuoteFromCall \/ Quoted(item.MarketHashName)} :
           /\ item.Currency = selectedCurrency <=> quoted
           /\ ~quoted =>
                /\ item.Currency = <<>>
                /\ item.LowestPrice = <<>>
                /\ item.MedianPrice = <<>>
                /\ item.Volume = <<>>]_vars

\* one identifier gave a record with the selected currency, from a successful
\* call, and then a record with an empty Currency, from a failed call
C24_Witness ==
  /\ Len(parsedItems) = 2
  /\ selectedCurrency = EUR
  /\ parsedItems[1].Currency = EUR
  /\ parsedItems[2].Currency = <<>>
  /\ parsedItems[2].Marketable = "Yes"
  /\ trace = <<"delay3000", "call", "error", "push">>
====
